---- MODULE Spec2Model ----
(***************************************************************************)
(* Model of xla::ShapedBuffer and xla::ScopedShapedBuffer                  *)
(* (tensorflow/compiler/xla/service/shaped_buffer.cc).                     *)
(*                                                                         *)
(* Every instance is a slot of Inst.  A ShapeTree<DeviceMemoryBase> is a   *)
(* record [nodes, shape_]: nodes is the sequence of (ShapeIndex, handle)   *)
(* pairs in the tree's traversal order, shape_ is the tree's pointer to    *)
(* the Shape that defines its structure.  The allocator is an external     *)
(* collaborator: the model records every Deallocate call it receives in    *)
(* the sequence calls.                                                     *)
(***************************************************************************)
EXTENDS Integers, Sequences, FiniteSets, TLC

\* ------------------------------------------------------------------ bounds
NumInst == 3            \* instance slots
MaxAddr == 3            \* non-null device addresses are 1..MaxAddr
NumAlloc == 2           \* allocators are 1..NumAlloc
MaxCalls == 4           \* cap on the recorded allocator calls
MaxSteps == 3           \* cap on the number of operations of one run

Inst == 1..NumInst
NullPtr == 0
Addrs == 1..MaxAddr
NullAlloc == 0
Allocs == 1..NumAlloc
Sizes == {8, 16}

\* ------------------------------------------------------------ value types
\* se::DeviceMemoryBase(): a default constructed handle is a null pointer.
DeviceMemoryBase == [opaque |-> NullPtr, size |-> 0]

\* se::DeviceMemoryBase::is_null()
is_null(m) == m.opaque = NullPtr

\* the handles a caller can write into a tree
Handles == {[opaque |-> NullPtr, size |-> 8]} \cup [opaque : Addrs, size : Sizes]

\* Shapes the callers construct instances with: an array and a 2-tuple of
\* arrays.  "nil" is the empty tuple of a default constructed ShapeTree,
\* "moved" the unspecified value of a moved-from Shape, "none" a dead slot.
UserShapes == {"leaf", "pair"}

\* the host shape a caller passes along with a device shape
HostShapeOf(ds) == IF ds = "leaf" THEN "host_leaf" ELSE "host_pair"
MovedShape == "moved"

\* ShapeUtil::ForEachSubshape order: the positions of a shape, root first.
SubshapeIndices(shape) ==
  CASE shape = "leaf" -> << <<>> >>
    [] shape = "pair" -> << <<>>, <<0>>, <<1>> >>
    [] shape = "nil"  -> << <<>> >>
    [] OTHER          -> << >>

\* the tree's shape pointer
OwnShapePtr(i) == [to |-> "on_device_shape_", of |-> i]
StoragePtr == [to |-> "shape_storage_", of |-> 0]
NoPtr == [to |-> "none", of |-> 0]

\* ShapeTree(const Shape* shape): one node per subshape, default values.
ShapeTreeOf(shape, ptr) ==
  [nodes |-> [k \in 1..Len(SubshapeIndices(shape)) |->
                [first |-> SubshapeIndices(shape)[k], second |-> DeviceMemoryBase]],
   shape_ |-> ptr]

\* ShapeTree(): a tree over the nil shape, which it stores itself.
DefaultShapeTree == ShapeTreeOf("nil", StoragePtr)

NoTree == [nodes |-> << >>, shape_ |-> NoPtr]

\* A moved-from ShapeTree is valid but unspecified: it is left without
\* nodes, or it still holds the handle values it had.
MovedFromTrees(t) == {[t EXCEPT !.nodes = << >>], t}

\* ShapeTree::replace_shape_ptr
replace_shape_ptr(t, ptr) == [t EXCEPT !.shape_ = ptr]

\* the device ordinal a caller uses with an allocator
OrdinalOf(al) == al - 1

\* the allocator a caller uses for the object it creates in slot d
AllocFor(d) == ((d - 1) % NumAlloc) + 1

\* the platform of an allocator: DeviceMemoryAllocator::platform()
PlatformOf(al) == al

\* ------------------------------------------------------------------ state
VARIABLES
  kind,             \* "dead", "ShapedBuffer" or "ScopedShapedBuffer"
  on_host_shape_,
  on_device_shape_,
  platform_,
  device_ordinal_,
  buffers_,
  allocator_,
  moved,            \* the instance was moved from and its tree is stale
  allocated,        \* addresses the allocator has handed out
  calls,            \* the allocator's log of Deallocate calls
  hist              \* the operations so far, newest last

vars == <<kind, on_host_shape_, on_device_shape_, platform_, device_ordinal_,
          buffers_, allocator_, moved, allocated, calls, hist>>

fields == <<kind, on_host_shape_, on_device_shape_, platform_, device_ordinal_,
            buffers_, allocator_, moved>>

\* the distinct non-null addresses of a tree
AddrsOf(t) == {t.nodes[k].second.opaque : k \in DOMAIN t.nodes} \ {NullPtr}

\* a history entry: the operation, its subject (or source) a, its destination
\* b, the number n of allocator calls it made, and the addresses and the
\* allocator that a held before it
Entry(op, a, b, n) ==
  [op |-> op, a |-> a, b |-> b, n |-> n,
   held |-> AddrsOf(buffers_[a]), al |-> allocator_[a]]

\* the process was terminated by a failed TF_CHECK_OK
Terminated == IF hist = << >> THEN FALSE
              ELSE hist[Len(hist)].op = "DeallocateFails"

\* every operation of the running process is entered in the history, which
\* bounds the run
Record(e) == /\ ~Terminated
             /\ Len(hist) < MaxSteps
             /\ hist' = Append(hist, e)

Live(i) == kind[i] # "dead"
IsScoped(i) == kind[i] = "ScopedShapedBuffer"
IsView(i) == kind[i] = "ShapedBuffer"

\* a new object is placed in the lowest free slot
Fresh(d) == /\ ~Live(d)
            /\ \A e \in Inst : e < d => Live(e)

\* the allocator hands out its addresses in increasing order
NextAddr == Cardinality(allocated) + 1

\* a moved-from tree that kept its nodes shows handles it no longer holds
Stale(t) == t.nodes # << >>

\* an object whose tree is stale is only assigned to, written or destroyed
Usable(s) == Live(s) /\ ~moved[s]

\* a handle
Handle(a, n) == [opaque |-> a, size |-> n]

\* The handles of the first object, by position: an array with its buffer;
\* a tuple whose elements share a buffer under two sizes; a tuple whose
\* elements hold the identical handle, below a null root of non-zero size.
InitHandles(ds) ==
  IF ds = "leaf"
  THEN {<<Handle(1, 8)>>}
  ELSE {<<Handle(1, 8), Handle(2, 8), Handle(2, 16)>>,
        <<Handle(NullPtr, 8), Handle(1, 16), Handle(1, 16)>>}

\* the tree over shape ds of instance i with handles hs
TreeWith(i, ds, hs) ==
  [nodes |-> [k \in 1..Len(hs) |-> [first |-> SubshapeIndices(ds)[k], second |-> hs[k]]],
   shape_ |-> OwnShapePtr(i)]

\* One object exists: a ShapedBuffer or a ScopedShapedBuffer as its
\* constructor and the caller's set_buffer calls leave it.
Init ==
  \E k \in {"ShapedBuffer", "ScopedShapedBuffer"}, ds \in UserShapes :
    \E hs \in InitHandles(ds) :
      /\ kind = [i \in Inst |-> IF i = 1 THEN k ELSE "dead"]
      /\ on_host_shape_ = [i \in Inst |-> IF i = 1 THEN HostShapeOf(ds) ELSE "none"]
      /\ on_device_shape_ = [i \in Inst |-> IF i = 1 THEN ds ELSE "none"]
      /\ platform_ = [i \in Inst |-> IF i = 1 THEN PlatformOf(AllocFor(1)) ELSE 0]
      /\ device_ordinal_ = [i \in Inst |-> IF i = 1 THEN OrdinalOf(AllocFor(1)) ELSE 0]
      /\ buffers_ = [i \in Inst |-> IF i = 1 THEN TreeWith(1, ds, hs) ELSE NoTree]
      /\ allocator_ = [i \in Inst |->
                         IF i = 1 /\ k = "ScopedShapedBuffer" THEN AllocFor(1)
                         ELSE NullAlloc]
      /\ moved = [i \in Inst |-> FALSE]
      /\ allocated = {hs[j].opaque : j \in 1..Len(hs)} \ {NullPtr}
      /\ calls = << >>
      /\ hist = << >>

\* A caller writes to an object when it has it at hand: before any other
\* operation, or right after an operation on that object.  A write commutes
\* with the operations on other objects, so this orders the writes of a run
\* and leaves out none of its states.
AtHand(i) == IF hist = << >> THEN TRUE
             ELSE i \in {hist[Len(hist)].a, hist[Len(hist)].b}

\* ------------------------------------------------------- ShapedBuffer part
\* the constructor builds the tree over the host shape
BaseCtor_HostTree(d, hs, ds, p, o) ==
  /\ on_host_shape_' = [on_host_shape_ EXCEPT ![d] = hs]
  /\ on_device_shape_' = [on_device_shape_ EXCEPT ![d] = ds]
  /\ platform_' = [platform_ EXCEPT ![d] = p]
  /\ device_ordinal_' = [device_ordinal_ EXCEPT ![d] = o]
  /\ buffers_' = [buffers_ EXCEPT ![d] = ShapeTreeOf(hs, OwnShapePtr(d))]

\* ShapedBuffer::ShapedBuffer(on_host_shape, on_device_shape, platform,
\* device_ordinal): the member initialisers of the constructor.
BaseCtor(d, hs, ds, p, o) ==
  /\ on_host_shape_' = [on_host_shape_ EXCEPT ![d] = hs]
  /\ on_device_shape_' = [on_device_shape_ EXCEPT ![d] = ds]
  /\ platform_' = [platform_ EXCEPT ![d] = p]
  /\ device_ordinal_' = [device_ordinal_ EXCEPT ![d] = o]
  /\ buffers_' = [buffers_ EXCEPT ![d] = ShapeTreeOf(ds, OwnShapePtr(d))]

\* the move without replace_shape_ptr
MovedTree_NotRepointed(s, d) == buffers_[s]

\* the tree the destination of a move holds: the source's nodes, repointed
\* at the destination's own on_device_shape_
MovedTree(s, d) == replace_shape_ptr(buffers_[s], OwnShapePtr(d))

\* the move leaves the destination's ordinal at its default
MovedOrdinal_NotCopied(s) == 0

\* the device ordinal the destination of a move takes
MovedOrdinal(s) == device_ordinal_[s]

\* ShapedBuffer::ShapedBuffer(ShapedBuffer&& s) and
\* ShapedBuffer::operator=(ShapedBuffer&& s), s and d distinct: the shapes
\* and the tree are moved, platform and ordinal copied; t is the state the
\* source's tree is left in.
BaseMove(s, d, t) ==
  /\ on_host_shape_' = [on_host_shape_ EXCEPT ![d] = on_host_shape_[s],
                                               ![s] = MovedShape]
  /\ on_device_shape_' = [on_device_shape_ EXCEPT ![d] = on_device_shape_[s],
                                                   ![s] = MovedShape]
  /\ platform_' = [platform_ EXCEPT ![d] = platform_[s]]
  /\ device_ordinal_' = [device_ordinal_ EXCEPT ![d] = MovedOrdinal(s)]
  /\ buffers_' = [buffers_ EXCEPT ![d] = MovedTree(s, d), ![s] = t]

\* the loop of clear() assigns to copies of the pairs
ClearTree_ByValue(t) == t

\* ShapedBuffer::clear(): every handle becomes a default constructed one.
ClearTree(t) ==
  [t EXCEPT !.nodes = [k \in DOMAIN t.nodes |->
                         [first |-> t.nodes[k].first, second |-> DeviceMemoryBase]]]

\* ------------------------------------------------- ScopedShapedBuffer part
\* the loop of Deallocate without the set of deallocated pointers
RECURSIVE DeallocateFrom_NoDedup(_, _, _, _, _)
DeallocateFrom_NoDedup(nodes, k, deallocated_ptrs, al, ord) ==
  IF k > Len(nodes) THEN << >>
  ELSE LET memory_base == nodes[k].second
       IN IF ~is_null(memory_base)
          THEN <<[allocator |-> al, device_ordinal |-> ord, mem |-> memory_base]>>
               \o DeallocateFrom_NoDedup(nodes, k + 1, deallocated_ptrs, al, ord)
          ELSE DeallocateFrom_NoDedup(nodes, k + 1, deallocated_ptrs, al, ord)

\* the loop of Deallocate passing the last handle of every address
RECURSIVE DeallocateFrom_LastOccurrence(_, _, _, _, _)
DeallocateFrom_LastOccurrence(nodes, k, deallocated_ptrs, al, ord) ==
  IF k > Len(nodes) THEN << >>
  ELSE LET memory_base == nodes[k].second
       IN IF /\ ~is_null(memory_base)
             /\ \A j \in (k + 1)..Len(nodes) :
                  nodes[j].second.opaque # memory_base.opaque
          THEN <<[allocator |-> al, device_ordinal |-> ord, mem |-> memory_base]>>
               \o DeallocateFrom_LastOccurrence(nodes, k + 1, deallocated_ptrs, al, ord)
          ELSE DeallocateFrom_LastOccurrence(nodes, k + 1, deallocated_ptrs, al, ord)

\* The loop of ScopedShapedBuffer::Deallocate from node k on: the calls made
\* to the allocator, given the set of pointers already deallocated.
RECURSIVE DeallocateFrom(_, _, _, _, _)
DeallocateFrom(nodes, k, deallocated_ptrs, al, ord) ==
  IF k > Len(nodes) THEN << >>
  ELSE LET memory_base == nodes[k].second
       IN IF ~is_null(memory_base) /\ memory_base.opaque \notin deallocated_ptrs
          THEN <<[allocator |-> al, device_ordinal |-> ord, mem |-> memory_base]>>
               \o DeallocateFrom(nodes, k + 1,
                                 deallocated_ptrs \cup {memory_base.opaque}, al, ord)
          ELSE DeallocateFrom(nodes, k + 1, deallocated_ptrs, al, ord)

\* Deallocate() without the check of the allocator
Deallocate_NoNullCheck(i) ==
  DeallocateFrom(buffers_[i].nodes, 1, {}, allocator_[i], device_ordinal_[i])

\* ScopedShapedBuffer::Deallocate(): the allocator calls it makes.
Deallocate(i) ==
  IF allocator_[i] = NullAlloc THEN << >>
  ELSE DeallocateFrom(buffers_[i].nodes, 1, {}, allocator_[i], device_ordinal_[i])

\* the calls the destructor of an instance makes
DtorCalls(i) == IF IsScoped(i) THEN Deallocate(i) ELSE << >>

\* move-assignment without the call of Deallocate()
AssignCalls_None(d) == << >>

\* the calls move-assignment makes for its destination before the move
AssignCalls(d) == Deallocate(d)

\* the move leaves the source's allocator in place
SourceAllocator_Kept(s) == allocator_[s]

\* s.allocator_ = nullptr, in the move constructor and in move-assignment
SourceAllocator(s) == NullAlloc

\* the adopting constructor drops its allocator
AdoptedAllocator_Null(al) == NullAlloc

\* allocator_(allocator), in the adopting constructor
AdoptedAllocator(al) == al

\* release() without the reset of buffers_
ReleasedTree_Kept(t) == t

\* buffers_ = ShapeTree<se::DeviceMemoryBase>(), in release()
ReleasedTree(t) == DefaultShapeTree

\* Deallocate() resets the handles it has deallocated
DeallocatedTree_Nulled(t) ==
  [t EXCEPT !.nodes = [k \in DOMAIN t.nodes |->
                         [first |-> t.nodes[k].first, second |-> DeviceMemoryBase]]]

\* the tree after Deallocate(): the loop reads pair.second and assigns nothing
DeallocatedTree(t) == t

\* --------------------------------------------------------------- actions
Dead(i) ==
  /\ kind' = [kind EXCEPT ![i] = "dead"]
  /\ on_host_shape_' = [on_host_shape_ EXCEPT ![i] = "none"]
  /\ on_device_shape_' = [on_device_shape_ EXCEPT ![i] = "none"]
  /\ platform_' = [platform_ EXCEPT ![i] = 0]
  /\ device_ordinal_' = [device_ordinal_ EXCEPT ![i] = 0]
  /\ buffers_' = [buffers_ EXCEPT ![i] = NoTree]
  /\ allocator_' = [allocator_ EXCEPT ![i] = NullAlloc]
  /\ moved' = [moved EXCEPT ![i] = FALSE]

\* ShapedBuffer b(on_host_shape, on_device_shape, platform, device_ordinal)
ConstructView(d, hs, ds, p, o) ==
  /\ Fresh(d)
  /\ BaseCtor(d, hs, ds, p, o)
  /\ kind' = [kind EXCEPT ![d] = "ShapedBuffer"]
  /\ Record(Entry("ConstructView", d, 0, 0))
  /\ UNCHANGED <<allocator_, moved, allocated, calls>>

\* ScopedShapedBuffer b(on_host_shape, on_device_shape, allocator, ordinal)
ConstructScoped(d, hs, ds, al, o) ==
  /\ Fresh(d)
  /\ BaseCtor(d, hs, ds, PlatformOf(al), o)
  /\ allocator_' = [allocator_ EXCEPT ![d] = al]
  /\ kind' = [kind EXCEPT ![d] = "ScopedShapedBuffer"]
  /\ Record(Entry("ConstructScoped", d, 0, 0))
  /\ UNCHANGED <<moved, allocated, calls>>

\* set_buffer(buffer, index): writes the handle of one tree position.  A
\* non-null address is one the allocator hands out now (with size 8), or
\* one this instance already holds (a repeated element, with size 16).
SetBuffer(i, k, h) ==
  /\ Live(i) /\ AtHand(i)
  /\ k \in DOMAIN buffers_[i].nodes
  /\ \/ is_null(h)
     \/ h.opaque = NextAddr /\ h.size = 8
     \/ ~moved[i] /\ h.opaque \in AddrsOf(buffers_[i]) /\ h.size = 16
  /\ buffers_' = [buffers_ EXCEPT ![i].nodes[k].second = h]
  /\ allocated' = allocated \cup ({h.opaque} \ {NullPtr})
  /\ Record(Entry("SetBuffer", i, 0, 0))
  /\ UNCHANGED <<kind, on_host_shape_, on_device_shape_, platform_,
                 device_ordinal_, allocator_, moved, calls>>

\* b.clear()
Clear(i) ==
  /\ Live(i) /\ AtHand(i)
  /\ buffers_' = [buffers_ EXCEPT ![i] = ClearTree(buffers_[i])]
  /\ Record(Entry("Clear", i, 0, 0))
  /\ UNCHANGED <<kind, on_host_shape_, on_device_shape_, platform_,
                 device_ordinal_, allocator_, moved, allocated, calls>>

\* ShapedBuffer d(std::move(s)), s a ShapedBuffer
MoveConstructView(s, d) ==
  /\ Usable(s) /\ IsView(s) /\ Fresh(d)
  /\ \E t \in MovedFromTrees(buffers_[s]) :
       /\ BaseMove(s, d, t)
       /\ moved' = [moved EXCEPT ![d] = FALSE, ![s] = Stale(t)]
  /\ kind' = [kind EXCEPT ![d] = "ShapedBuffer"]
  /\ Record(Entry("MoveConstructView", s, d, 0))
  /\ UNCHANGED <<allocator_, allocated, calls>>

\* d = std::move(s), both ShapedBuffers, s and d distinct
MoveAssignView(s, d) ==
  /\ Usable(s) /\ IsView(s) /\ Live(d) /\ IsView(d) /\ s # d
  /\ \E t \in MovedFromTrees(buffers_[s]) :
       /\ BaseMove(s, d, t)
       /\ moved' = [moved EXCEPT ![d] = FALSE, ![s] = Stale(t)]
  /\ Record(Entry("MoveAssignView", s, d, 0))
  /\ UNCHANGED <<kind, allocator_, allocated, calls>>

\* ScopedShapedBuffer d(std::move(v), allocator), v a ShapedBuffer
Adopt(v, d, al) ==
  /\ Usable(v) /\ IsView(v) /\ Fresh(d)
  /\ \E t \in MovedFromTrees(buffers_[v]) :
       /\ BaseMove(v, d, t)
       /\ moved' = [moved EXCEPT ![d] = FALSE, ![v] = Stale(t)]
  /\ allocator_' = [allocator_ EXCEPT ![d] = AdoptedAllocator(al)]
  /\ kind' = [kind EXCEPT ![d] = "ScopedShapedBuffer"]
  /\ Record(Entry("Adopt", v, d, 0))
  /\ UNCHANGED <<allocated, calls>>

\* ScopedShapedBuffer d(std::move(s)), s a ScopedShapedBuffer
MoveConstructScoped(s, d) ==
  /\ Usable(s) /\ IsScoped(s) /\ Fresh(d)
  /\ \E t \in MovedFromTrees(buffers_[s]) :
       /\ BaseMove(s, d, t)
       /\ moved' = [moved EXCEPT ![d] = FALSE, ![s] = Stale(t)]
  /\ allocator_' = [allocator_ EXCEPT ![d] = allocator_[s], ![s] = SourceAllocator(s)]
  /\ kind' = [kind EXCEPT ![d] = "ScopedShapedBuffer"]
  /\ Record(Entry("MoveConstructScoped", s, d, 0))
  /\ UNCHANGED <<allocated, calls>>

\* d = std::move(s), both ScopedShapedBuffers, s and d distinct
MoveAssignScoped(s, d) ==
  /\ Usable(s) /\ IsScoped(s) /\ Live(d) /\ IsScoped(d) /\ s # d
  /\ Len(calls) + Len(AssignCalls(d)) <= MaxCalls
  /\ calls' = calls \o AssignCalls(d)
  /\ \E t \in MovedFromTrees(buffers_[s]) :
       /\ BaseMove(s, d, t)
       /\ moved' = [moved EXCEPT ![d] = FALSE, ![s] = Stale(t)]
  /\ allocator_' = [allocator_ EXCEPT ![d] = allocator_[s], ![s] = SourceAllocator(s)]
  /\ Record(Entry("MoveAssignScoped", s, d, Len(AssignCalls(d))))
  /\ UNCHANGED <<kind, allocated>>

\* ShapedBuffer d = s.release(), s a ScopedShapedBuffer
Release(s, d) ==
  /\ Usable(s) /\ IsScoped(s) /\ Fresh(d)
  /\ \E t \in MovedFromTrees(buffers_[s]) :
       /\ on_host_shape_' = [on_host_shape_ EXCEPT ![d] = on_host_shape_[s],
                                                    ![s] = MovedShape]
       /\ on_device_shape_' = [on_device_shape_ EXCEPT ![d] = on_device_shape_[s],
                                                        ![s] = MovedShape]
       /\ platform_' = [platform_ EXCEPT ![d] = platform_[s]]
       /\ device_ordinal_' = [device_ordinal_ EXCEPT ![d] = MovedOrdinal(s)]
       /\ buffers_' = [buffers_ EXCEPT ![d] = MovedTree(s, d), ![s] = ReleasedTree(t)]
  /\ kind' = [kind EXCEPT ![d] = "ShapedBuffer"]
  /\ Record(Entry("Release", s, d, 0))
  /\ UNCHANGED <<allocator_, moved, allocated, calls>>

\* the end of an instance's lifetime: ~ShapedBuffer or ~ScopedShapedBuffer
Destroy(i) ==
  /\ Live(i)
  /\ Len(calls) + Len(DtorCalls(i)) <= MaxCalls
  /\ calls' = calls \o DtorCalls(i)
  /\ Dead(i)
  /\ Record(Entry("Destroy", i, 0, Len(DtorCalls(i))))
  /\ UNCHANGED allocated

\* an explicit call of the protected Deallocate()
DeallocateCall(i) ==
  /\ Live(i) /\ IsScoped(i)
  /\ Len(calls) + Len(Deallocate(i)) <= MaxCalls
  /\ calls' = calls \o Deallocate(i)
  /\ buffers_' = [buffers_ EXCEPT ![i] = DeallocatedTree(buffers_[i])]
  /\ Record(Entry("Deallocate", i, 0, Len(Deallocate(i))))
  /\ UNCHANGED <<kind, on_host_shape_, on_device_shape_, platform_,
                 device_ordinal_, allocator_, moved, allocated>>

Next ==
  \/ \E d \in Inst, ds \in UserShapes :
       ConstructView(d, HostShapeOf(ds), ds, PlatformOf(AllocFor(d)), OrdinalOf(AllocFor(d)))
  \/ \E d \in Inst, ds \in UserShapes :
       ConstructScoped(d, HostShapeOf(ds), ds, AllocFor(d), OrdinalOf(AllocFor(d)))
  \/ \E i \in Inst, k \in 1..3, h \in Handles : SetBuffer(i, k, h)
  \/ \E i \in Inst : Clear(i)
  \/ \E s \in Inst, d \in Inst : MoveConstructView(s, d)
  \/ \E s \in Inst, d \in Inst : MoveAssignView(s, d)
  \/ \E v \in Inst, d \in Inst : Adopt(v, d, AllocFor(d))
  \/ \E s \in Inst, d \in Inst : MoveConstructScoped(s, d)
  \/ \E s \in Inst, d \in Inst : MoveAssignScoped(s, d)
  \/ \E s \in Inst, d \in Inst : Release(s, d)
  \/ \E i \in Inst : Destroy(i)

Spec == Init /\ [][Next]_vars

\* the operations together with explicit calls of Deallocate()
NextDealloc == Next \/ \E i \in Inst : DeallocateCall(i)

SpecDealloc == Init /\ [][NextDealloc]_vars

\* d = std::move(d), d a ScopedShapedBuffer: Deallocate() runs first; the
\* shapes and the tree are move-assigned to themselves, which leaves them
\* valid but unspecified (as they were, or as moved-from), and the tree is
\* pointed at on_device_shape_; allocator_ is assigned to itself and nulled.
MoveAssignSelf(d) ==
  /\ Usable(d) /\ IsScoped(d)
  /\ Len(calls) + Len(AssignCalls(d)) <= MaxCalls
  /\ calls' = calls \o AssignCalls(d)
  /\ \E t \in MovedFromTrees(buffers_[d]) :
       /\ buffers_' = [buffers_ EXCEPT ![d] = replace_shape_ptr(t, OwnShapePtr(d))]
       /\ moved' = [moved EXCEPT ![d] = Stale(t)]
  /\ \E keep \in BOOLEAN :
       /\ on_host_shape_' = [on_host_shape_ EXCEPT ![d] =
                                IF keep THEN on_host_shape_[d] ELSE MovedShape]
       /\ on_device_shape_' = [on_device_shape_ EXCEPT ![d] =
                                  IF keep THEN on_device_shape_[d] ELSE MovedShape]
  /\ allocator_' = [allocator_ EXCEPT ![d] = SourceAllocator(d)]
  /\ Record(Entry("MoveAssignSelf", d, d, Len(AssignCalls(d))))
  /\ UNCHANGED <<kind, platform_, device_ordinal_, allocated>>

\* the operations together with move-assignments of a wrapper to itself
NextSelf == Next \/ \E d \in Inst : MoveAssignSelf(d)

SpecSelf == Init /\ [][NextSelf]_vars

\* TF_CHECK_OK lets the loop go on after a failed allocator call
CheckedCalls_Swallowed(cs, f) == cs

\* TF_CHECK_OK(allocator_->Deallocate(...)): of the allocator calls cs that a
\* run of Deallocate() has to make, the ones it makes when the allocator
\* fails the f-th of them; the check terminates the process at that call.
CheckedCalls(cs, f) == SubSeq(cs, 1, f)

\* Deallocate() of instance i, called by the destructor or by
\* move-assignment, in which the allocator fails the f-th call; the entry
\* of the history holds f in the place of the destination.
DeallocateFails(i, f) ==
  /\ Live(i) /\ IsScoped(i)
  /\ f \in 1..Len(Deallocate(i))
  /\ Len(calls) + Len(CheckedCalls(Deallocate(i), f)) <= MaxCalls
  /\ calls' = calls \o CheckedCalls(Deallocate(i), f)
  /\ Record(Entry("DeallocateFails", i, f, Len(CheckedCalls(Deallocate(i), f))))
  /\ UNCHANGED <<fields, allocated>>

\* the operations with an allocator that can fail a call
NextFail == Next \/ \E i \in Inst, f \in 1..MaxAddr : DeallocateFails(i, f)

SpecFail == Init /\ [][NextFail]_vars

\* ------------------------------------------------------------ properties
Last == hist[Len(hist)]
Prev == hist[Len(hist) - 1]

\* the operation of the current step, and whether it is op
This == hist'[Len(hist')]
Did(op) == This.op = op

\* the allocator calls the current step makes
NewCalls == SubSeq(calls', Len(calls) + 1, Len(calls'))

\* the last n allocator calls made so far
LastCalls(n) == SubSeq(calls, Len(calls) - n + 1, Len(calls))

\* how many calls of a sequence of allocator calls pass address a
Count(cs, a) == Cardinality({k \in DOMAIN cs : cs[k].mem.opaque = a})

\* a sequence of allocator calls passes each address of the set as once, and
\* no other address, all to allocator al with device ordinal ord
OncePerAddress(cs, as, al, ord) ==
  /\ Len(cs) = Cardinality(as)
  /\ \A a \in Addrs : Count(cs, a) = IF a \in as THEN 1 ELSE 0
  /\ \A k \in DOMAIN cs : /\ cs[k].allocator = al
                          /\ cs[k].device_ordinal = ord
                          /\ ~is_null(cs[k].mem)

\* the instances that hold address a and have an allocator
Owners(a) == {i \in Inst : Live(i) /\ allocator_[i] # NullAlloc
                           /\ a \in AddrsOf(buffers_[i])}

MoveBefore ==
  IF Len(hist) >= 1 /\ Last.op = "MoveConstructScoped" THEN {Last}
  ELSE IF /\ Len(hist) >= 2 /\ Prev.op = "MoveConstructScoped"
          /\ Last.op = "Destroy" /\ Last.a \in {Prev.a, Prev.b}
       THEN {Prev}
       ELSE {}

\* C2: after move-constructing B from a populated owning wrapper A,
\* destroying A makes no allocator call (A's allocator is null) and
\* destroying B deallocates every distinct non-null address A held before
\* the move exactly once, in either order of destruction.
C2_OwnershipTransfersOnce ==
  [][\A m \in MoveBefore :
       (m.al # NullAlloc /\ m.held # {} /\ Did("Destroy")) =>
         /\ This.a = m.a => /\ allocator_[m.a] = NullAlloc
                            /\ NewCalls = << >>
         /\ This.a = m.b => OncePerAddress(NewCalls, m.held, m.al,
                                           device_ordinal_[m.b])]_vars

\* A, moved from and still holding its handle values, was destroyed right
\* after the move without a call
C2_Witness ==
  /\ Len(hist) >= 2
  /\ Prev.op = "MoveConstructScoped" /\ Prev.al # NullAlloc /\ Prev.held # {}
  /\ Last.op = "Destroy" /\ Last.a = Prev.a /\ Last.held # {} /\ Last.n = 0

\* C3: one Deallocate call, or the destruction, of a wrapper with a
\* non-null allocator calls the allocator exactly once for each distinct
\* non-null address of the tree, with the wrapper's device ordinal and a
\* handle of the tree, and never for a null handle.
C3_DedupOnAliasing ==
  [][((Did("Destroy") \/ Did("Deallocate"))
      /\ IsScoped(This.a) /\ allocator_[This.a] # NullAlloc) =>
         /\ OncePerAddress(NewCalls, AddrsOf(buffers_[This.a]),
                           allocator_[This.a], device_ordinal_[This.a])
         /\ \A k \in DOMAIN NewCalls :
              \E j \in DOMAIN buffers_[This.a].nodes :
                buffers_[This.a].nodes[j].second = NewCalls[k].mem]_vars

\* a tree with an address at two positions and a null handle of non-zero
\* size was deallocated with a single call
C3_Witness ==
  /\ Len(hist) >= 1 /\ Last.op = "Deallocate" /\ Last.n = 1
  /\ LET ns == buffers_[Last.a].nodes
     IN /\ \E j, k \in DOMAIN ns : j # k /\ ~is_null(ns[j].second)
                                   /\ ns[j].second.opaque = ns[k].second.opaque
        /\ \E j \in DOMAIN ns : is_null(ns[j].second) /\ ns[j].second.size # 0

\* C4: move-assigning owning wrapper S into owning wrapper D, S # D, first
\* deallocates every distinct non-null address D held, once each through
\* D's old allocator, then adopts S's state: D holds S's handles, ordinal and
\* allocator, S's allocator is null, no address of S was deallocated.
C4_MoveAssignDeallocatesFirst ==
  [][Did("MoveAssignScoped") =>
       LET s == This.a
           d == This.b
       IN (allocator_[s] # NullAlloc /\ allocator_[d] # NullAlloc) =>
            /\ OncePerAddress(NewCalls, AddrsOf(buffers_[d]), allocator_[d],
                              device_ordinal_[d])
            /\ buffers_'[d].nodes = buffers_[s].nodes
            /\ device_ordinal_'[d] = device_ordinal_[s]
            /\ allocator_'[d] = allocator_[s]
            /\ allocator_'[s] = NullAlloc
            /\ \A a \in AddrsOf(buffers_[s]) : Count(NewCalls, a) = 0]_vars

\* a populated owning wrapper was assigned to a populated owning wrapper
C4_Witness ==
  /\ Len(hist) >= 1 /\ Last.op = "MoveAssignScoped"
  /\ Last.al # NullAlloc /\ Last.held # {} /\ Last.n >= 1
  /\ AddrsOf(buffers_[Last.b]) = Last.held

\* C5: release() on a populated owning wrapper makes no allocator call,
\* returns a view with the wrapper's handles at every position and the same
\* shapes, platform and ordinal, and leaves the wrapper without a non-null
\* handle, so that destroying the wrapper afterwards deallocates nothing.
C5_ReleaseDetaches ==
  [][/\ Did("Release") =>
          LET s == This.a
              d == This.b
          IN /\ calls' = calls
             /\ kind'[d] = "ShapedBuffer"
             /\ buffers_'[d].nodes = buffers_[s].nodes
             /\ on_host_shape_'[d] = on_host_shape_[s]
             /\ on_device_shape_'[d] = on_device_shape_[s]
             /\ platform_'[d] = platform_[s]
             /\ device_ordinal_'[d] = device_ordinal_[s]
             /\ AddrsOf(buffers_'[s]) = {}
     /\ (Len(hist) >= 1 /\ Last.op = "Release" /\ Did("Destroy")
         /\ This.a = Last.a) => NewCalls = << >>]_vars

\* a populated owning wrapper was released and then destroyed
C5_Witness ==
  /\ Len(hist) >= 2
  /\ Prev.op = "Release" /\ Prev.al # NullAlloc /\ Prev.held # {}
  /\ Last.op = "Destroy" /\ Last.a = Prev.a /\ Last.al # NullAlloc
  /\ AddrsOf(buffers_[Prev.b]) = Prev.held

\* C6: clear() sets the handle at every position to null, leaves the
\* positions, the shapes, the ordinal and the allocator unchanged and makes
\* no allocator call; destroying an owning wrapper after clear() makes no
\* Deallocate call.
C6_ClearNullsWithoutFreeing ==
  [][/\ Did("Clear") =>
          LET i == This.a
          IN /\ calls' = calls
             /\ Len(buffers_'[i].nodes) = Len(buffers_[i].nodes)
             /\ \A k \in DOMAIN buffers_[i].nodes :
                  /\ is_null(buffers_'[i].nodes[k].second)
                  /\ buffers_'[i].nodes[k].first = buffers_[i].nodes[k].first
             /\ on_host_shape_' = on_host_shape_
             /\ on_device_shape_' = on_device_shape_
             /\ device_ordinal_' = device_ordinal_
             /\ allocator_' = allocator_
     /\ (Len(hist) >= 1 /\ Last.op = "Clear" /\ Did("Destroy")
         /\ This.a = Last.a) => NewCalls = << >>]_vars

\* a populated owning wrapper was cleared and then destroyed
C6_Witness ==
  /\ Len(hist) >= 2
  /\ Prev.op = "Clear" /\ Prev.al # NullAlloc /\ Prev.held # {}
  /\ Last.op = "Destroy" /\ Last.a = Prev.a /\ Last.al # NullAlloc

\* C7: Deallocate is idempotent: over two consecutive Deallocate calls on
\* the same populated owning wrapper no address is passed to the allocator
\* more than once.
C7_DeallocateIdempotent ==
  [][(Len(hist) >= 1 /\ Last.op = "Deallocate" /\ Did("Deallocate")
      /\ This.a = Last.a) =>
       \A a \in Addrs : Count(LastCalls(Last.n), a) + Count(NewCalls, a) <= 1]_vars

ViewMoves == {"MoveConstructView", "MoveAssignView"}

\* C9: move-constructing or move-assigning a populated ShapedBuffer gives
\* the destination the source's handle at every position, with the same
\* host shape, device shape, platform and ordinal; a later write through
\* the destination changes the destination's tree and not the source's.
C9_MovePreservesStructure ==
  [][/\ This.op \in ViewMoves =>
          LET s == This.a
              d == This.b
          IN /\ buffers_'[d].nodes = buffers_[s].nodes
             /\ on_host_shape_'[d] = on_host_shape_[s]
             /\ on_device_shape_'[d] = on_device_shape_[s]
             /\ platform_'[d] = platform_[s]
             /\ device_ordinal_'[d] = device_ordinal_[s]
     /\ (Len(hist) >= 1 /\ Last.op \in ViewMoves /\ Did("SetBuffer")
         /\ This.a = Last.b) =>
          /\ buffers_'[Last.a] = buffers_[Last.a]
          /\ \A j \in Inst \ {Last.b} : buffers_'[j] = buffers_[j]]_vars

\* a populated view was moved and the destination, which holds the
\* handles, was then written to
C9_Witness ==
  /\ Len(hist) >= 2
  /\ Prev.op \in ViewMoves /\ Prev.held # {}
  /\ Last.op = "SetBuffer" /\ Last.a = Prev.b /\ Last.held = Prev.held
  /\ AddrsOf(buffers_[Last.a]) # Last.held

\* C10: constructing a wrapper from a populated view and an allocator makes
\* no allocator call and makes the wrapper the owner of the view's handles:
\* destroying the wrapper deallocates every distinct non-null address the
\* view contained exactly once.
C10_AdoptOwns ==
  [][/\ Did("Adopt") =>
          /\ calls' = calls
          /\ buffers_'[This.b].nodes = buffers_[This.a].nodes
          /\ allocator_'[This.b] = AllocFor(This.b)
     /\ (Len(hist) >= 1 /\ Last.op = "Adopt" /\ Did("Destroy")
         /\ This.a = Last.b) =>
          OncePerAddress(NewCalls, Last.held, AllocFor(Last.b),
                         device_ordinal_[Last.b])]_vars

\* a populated view was adopted and the wrapper then destroyed, with one
\* call per address of the view
C10_Witness ==
  /\ Len(hist) >= 2
  /\ Prev.op = "Adopt" /\ Prev.held # {}
  /\ Last.op = "Destroy" /\ Last.a = Prev.b /\ Last.n = Cardinality(Prev.held)
  /\ Last.n >= 1

\* C11: a ShapedBuffer or ScopedShapedBuffer constructed from shapes,
\* platform or allocator and ordinal has exactly one tree entry per subshape
\* position of the device shape and every handle is null; the construction
\* calls no allocator, and a ScopedShapedBuffer destroyed right after it
\* makes no Deallocate call.
C11_ConstructAllNull ==
  [][/\ (Did("ConstructView") \/ Did("ConstructScoped")) =>
          LET d == This.a
              ix == SubshapeIndices(on_device_shape_'[d])
          IN /\ on_device_shape_'[d] \in UserShapes
             /\ Len(buffers_'[d].nodes) = Len(ix)
             /\ \A k \in DOMAIN ix :
                  /\ buffers_'[d].nodes[k].first = ix[k]
                  /\ is_null(buffers_'[d].nodes[k].second)
             /\ calls' = calls
     /\ (Len(hist) >= 1 /\ Last.op = "ConstructScoped" /\ Did("Destroy")
         /\ This.a = Last.a) => NewCalls = << >>]_vars

\* a wrapper was constructed with an allocator and destroyed at once
C11_Witness ==
  /\ Len(hist) >= 2
  /\ Prev.op = "ConstructScoped"
  /\ Last.op = "Destroy" /\ Last.a = Prev.a /\ Last.al # NullAlloc /\ Last.n = 0

\* C12: when the allocator's Deallocate fails during Deallocate(), the
\* failure is not swallowed: the failed call is the last one, so that no
\* later tree entry is passed to the allocator, and the process does nothing
\* after it (Deallocate() does not return).
C12_AllocatorFailureFatal ==
  [][/\ Did("DeallocateFails") =>
          LET i == This.a
              f == This.b
          IN /\ Len(NewCalls) = f
             /\ \A a \in Addrs :
                  Count(NewCalls, a) <= IF a \in AddrsOf(buffers_[i]) THEN 1 ELSE 0
             /\ \A k \in DOMAIN NewCalls : NewCalls[k].allocator = allocator_[i]
     /\ Terminated => vars' = vars]_vars

\* the allocator failed the first call for a tree with two addresses, and
\* the second address was not passed to it
C12_Witness ==
  /\ Len(hist) >= 1 /\ Last.op = "DeallocateFails" /\ Last.b = 1
  /\ Cardinality(Last.held) >= 2
  /\ \E a \in Last.held : Count(calls, a) = 0

\* C13: Deallocate() and the destructor are no-ops on a wrapper whose
\* allocator is null or whose tree holds no non-null handle: they make no
\* allocator call, and Deallocate() changes no field, whatever handles the
\* tree of a moved-from wrapper with a null allocator still contains.
C13_NoOpWithoutOwnership ==
  [][((Did("Destroy") \/ Did("Deallocate")) /\ IsScoped(This.a)
      /\ (allocator_[This.a] = NullAlloc \/ AddrsOf(buffers_[This.a]) = {})) =>
         /\ NewCalls = << >>
         /\ Did("Deallocate") => /\ buffers_' = buffers_
                                 /\ allocator_' = allocator_
                                 /\ device_ordinal_' = device_ordinal_
                                 /\ on_device_shape_' = on_device_shape_
                                 /\ on_host_shape_' = on_host_shape_
                                 /\ platform_' = platform_]_vars

\* Deallocate() ran on a moved-from wrapper that has a null allocator and
\* still holds the addresses it was moved from with
C13_Witness ==
  /\ Len(hist) >= 2
  /\ Prev.op \in {"MoveConstructScoped", "MoveAssignScoped"} /\ Prev.al # NullAlloc
  /\ Last.op = "Deallocate" /\ Last.a = Prev.a
  /\ Last.al = NullAlloc /\ Last.held # {} /\ Last.held = Prev.held /\ Last.n = 0

\* instance i was emptied by release() and has not been assigned to since
Emptied(i) ==
  \E j \in DOMAIN hist :
    /\ hist[j].op = "Release" /\ hist[j].a = i
    /\ \A m \in DOMAIN hist :
         m > j => /\ ~(hist[m].op = "Destroy" /\ hist[m].a = i)
                  /\ ~(hist[m].op = "MoveAssignScoped" /\ hist[m].b = i)

\* C14 as claimed: in every reachable state the tree of every live instance
\* points at that instance's own on_device_shape_, the emptied wrapper of
\* release() included.
C14_ShapePtrOwn ==
  \A i \in Inst : Live(i) => buffers_[i].shape_ = OwnShapePtr(i)

\* C14 as amended: in every reachable state the tree of every live instance
\* points at that instance's own on_device_shape_, except for the wrapper
\* emptied by release(), whose tree points at the nil shape the tree stores
\* itself; no tree points at the shape of another instance.
C14_ShapePtrOwnUnlessEmptied ==
  \A i \in Inst :
    Live(i) => \/ buffers_[i].shape_ = OwnShapePtr(i)
               \/ Emptied(i) /\ buffers_[i].shape_ = StoragePtr

\* a wrapper was released and the returned view moved on: the view's tree
\* went through two instances and points at the one that holds it
C14_Witness ==
  /\ Len(hist) >= 2
  /\ Prev.op = "Release" /\ Prev.held # {}
  /\ Last.op \in {"MoveConstructView", "Adopt"} /\ Last.a = Prev.b
  /\ Live(Prev.a) /\ Live(Last.a) /\ Live(Last.b)
  /\ AddrsOf(buffers_[Last.b]) = Prev.held
  /\ buffers_[Last.b].shape_ = OwnShapePtr(Last.b)

\* the operations that take an owning wrapper's contents away from it
MoveOuts == {"MoveConstructScoped", "MoveAssignScoped", "Release"}

\* the instance whose Deallocate() the current step runs
Caller == IF Did("MoveAssignScoped") THEN This.b ELSE This.a

\* instance i was an owning wrapper and has been moved out of or released
DisownedOnce(i) ==
  \E j \in DOMAIN hist :
    /\ hist[j].op \in MoveOuts /\ hist[j].a = i /\ hist[j].al # NullAlloc
    /\ \A m \in DOMAIN hist : m > j => ~(hist[m].op = "Destroy" /\ hist[m].a = i)

\* instance i was an owning wrapper, has been moved out of or released, and
\* has since neither been the destination of a move-assignment nor, after
\* release(), been written to
Disowned(i) ==
  \E j \in DOMAIN hist :
    /\ hist[j].op \in MoveOuts /\ hist[j].a = i /\ hist[j].al # NullAlloc
    /\ \A m \in DOMAIN hist :
         m > j => /\ ~(hist[m].op = "Destroy" /\ hist[m].a = i)
                  /\ ~(hist[m].op = "MoveAssignScoped" /\ hist[m].b = i)
                  /\ ~(hist[j].op = "Release" /\ hist[m].op = "SetBuffer"
                       /\ hist[m].a = i)

\* C15 as claimed: once a wrapper has been moved out of or released, no
\* later operation on that instance (a write into its tree, a move-assign
\* into it, Deallocate(), destruction) makes it call the allocator.
C15_DisownedTerminal ==
  [][DisownedOnce(Caller) => NewCalls = << >>]_vars

\* C15 as amended: once a wrapper has been moved out of or released, it
\* makes no allocator call in Deallocate(), in its destruction or as the
\* destination of a move-assign, until a move-assign has given it the
\* contents and the allocator of another wrapper or, after release(), a handle
\* has been written into its tree.
C15_DisownedUntilRefilled ==
  [][Disowned(Caller) => NewCalls = << >>]_vars

\* a wrapper was moved out of, keeping its handle values, then written to
\* and destroyed without an allocator call
C15_Witness ==
  /\ Len(hist) >= 3
  /\ LET mv == hist[Len(hist) - 2]
     IN /\ mv.op = "MoveConstructScoped" /\ mv.al # NullAlloc /\ mv.held # {}
        /\ Prev.op = "SetBuffer" /\ Prev.a = mv.a
        /\ Last.op = "Destroy" /\ Last.a = mv.a /\ Last.held # {} /\ Last.n = 0

\* C16: a successful Deallocate() call on an owning wrapper changes nothing
\* in the wrapper: the allocator stays set and every tree position keeps the
\* handle, address and size, it held before the call.
C16_DeallocateKeepsState ==
  [][(Did("Deallocate") /\ allocator_[This.a] # NullAlloc
      /\ AddrsOf(buffers_[This.a]) # {}) =>
         /\ NewCalls # << >>
         /\ allocator_'[This.a] = allocator_[This.a]
         /\ buffers_'[This.a] = buffers_[This.a]
         /\ buffers_' = buffers_ /\ allocator_' = allocator_
         /\ device_ordinal_' = device_ordinal_ /\ platform_' = platform_
         /\ on_device_shape_' = on_device_shape_
         /\ on_host_shape_' = on_host_shape_ /\ kind' = kind]_vars

\* Deallocate() made calls for a wrapper, which holds the same addresses
\* and the same allocator after it
C16_Witness ==
  /\ Len(hist) >= 1 /\ Last.op = "Deallocate" /\ Last.n >= 1
  /\ Last.al # NullAlloc /\ allocator_[Last.a] = Last.al
  /\ Last.held # {} /\ AddrsOf(buffers_[Last.a]) = Last.held

\* the positions of a sequence of tree nodes that hold a non-null address
\* which no earlier position holds
FirstPositions(ns) ==
  {k \in DOMAIN ns : /\ ~is_null(ns[k].second)
                     /\ \A j \in 1..(k - 1) : ns[j].second.opaque # ns[k].second.opaque}

\* C17: the allocator calls of one Deallocate() are the first occurrences
\* of each distinct non-null address in the tree's traversal order; where
\* positions share an address under different sizes, the handle passed is
\* the one at the first of them and the later sizes are ignored.
C17_FirstOccurrenceOrder ==
  [][((Did("Destroy") \/ Did("Deallocate") \/ Did("MoveAssignScoped"))
      /\ IsScoped(Caller) /\ allocator_[Caller] # NullAlloc) =>
         LET ns == buffers_[Caller].nodes
             fp == FirstPositions(ns)
         IN /\ Len(NewCalls) = Cardinality(fp)
            /\ \A k \in fp :
                 NewCalls[Cardinality({j \in fp : j <= k})].mem = ns[k].second]_vars

\* two addresses were deallocated in traversal order, the second of them
\* with the size of its first position and not that of its later one
C17_Witness ==
  /\ Len(hist) >= 1 /\ Last.op = "Deallocate" /\ Last.n = 2
  /\ LET ns == buffers_[Last.a].nodes
         cs == LastCalls(2)
     IN /\ Len(ns) = 3
        /\ cs[1].mem = ns[1].second /\ cs[2].mem = ns[2].second
        /\ ns[3].second.opaque = ns[2].second.opaque
        /\ ns[3].second.size # ns[2].second.size

\* C18: move-assigning a populated owning wrapper to itself deallocates
\* each of its distinct non-null addresses exactly once and leaves its
\* allocator null, so that its later destruction makes no allocator call
\* and no address is freed twice.
C18_SelfMoveAssign ==
  [][/\ (Did("MoveAssignSelf") /\ allocator_[This.a] # NullAlloc
         /\ AddrsOf(buffers_[This.a]) # {}) =>
          /\ OncePerAddress(NewCalls, AddrsOf(buffers_[This.a]),
                            allocator_[This.a], device_ordinal_[This.a])
          /\ allocator_'[This.a] = NullAlloc
     /\ (Len(hist) >= 1 /\ Last.op = "MoveAssignSelf" /\ Did("Destroy")
         /\ This.a = Last.a) => NewCalls = << >>
     /\ \A a \in Addrs : Count(calls', a) <= 1]_vars

\* a populated owning wrapper was assigned to itself, kept its handle
\* values, and was destroyed without a further call
C18_Witness ==
  /\ Len(hist) >= 2
  /\ Prev.op = "MoveAssignSelf" /\ Prev.al # NullAlloc /\ Prev.held # {}
  /\ Prev.n = Cardinality(Prev.held)
  /\ Last.op = "Destroy" /\ Last.a = Prev.a /\ Last.held = Prev.held /\ Last.n = 0

\* the current step destroys one wrapper of a round trip: Prev released
\* a populated owning wrapper and Last constructed a wrapper from the
\* returned view and the same allocator
RoundTripEnds ==
  /\ Len(hist) >= 2
  /\ Prev.op = "Release" /\ Prev.al # NullAlloc /\ Prev.held # {}
  /\ Last.op = "Adopt" /\ Last.a = Prev.b /\ allocator_[Last.b] = Prev.al
  /\ Did("Destroy") /\ This.a \in {Prev.a, Last.b}

\* C19: release() followed by the construction of a new wrapper from the
\* returned view and the same allocator is an ownership round trip: the new
\* wrapper holds the original's handle at every position and its device
\* ordinal, and destroying both wrappers, in either order, deallocates every
\* distinct non-null address exactly once, all by the new wrapper.
C19_ReleaseAdoptRoundTrip ==
  [][/\ Did("Release") =>
          /\ buffers_'[This.b].nodes = buffers_[This.a].nodes
          /\ device_ordinal_'[This.a] = device_ordinal_[This.a]
     /\ (Len(hist) >= 1 /\ Last.op = "Release" /\ Last.al # NullAlloc
         /\ Last.held # {} /\ Did("Adopt") /\ This.a = Last.b
         /\ AllocFor(This.b) = Last.al) =>
          /\ buffers_'[This.b].nodes = buffers_[This.a].nodes
          /\ AddrsOf(buffers_'[This.b]) = Last.held
          /\ device_ordinal_'[This.b] = device_ordinal_[Last.a]
          /\ allocator_'[This.b] = Last.al
          /\ calls' = calls
     /\ RoundTripEnds =>
          LET old == Prev.a
              new == Last.b
              other == IF This.a = Prev.a THEN Last.b ELSE Prev.a
          IN /\ kind'[other] = kind[other]
             /\ buffers_'[other] = buffers_[other]
             /\ allocator_'[other] = allocator_[other]
             /\ device_ordinal_'[other] = device_ordinal_[other]
             /\ This.a = old =>
                  /\ NewCalls = << >>
                  /\ OncePerAddress(DtorCalls(new), Prev.held, Prev.al,
                                    device_ordinal_[old])
             /\ This.a = new =>
                  /\ OncePerAddress(NewCalls, Prev.held, Prev.al,
                                    device_ordinal_[old])
                  /\ DtorCalls(old) = << >>]_vars

\* a populated owning wrapper was released, a new wrapper constructed from
\* the view with the same allocator, and the new wrapper destroyed with one
\* call per address while the original wrapper is still alive
C19_Witness ==
  /\ Len(hist) >= 3
  /\ LET rel == hist[Len(hist) - 2]
     IN /\ rel.op = "Release" /\ rel.al # NullAlloc /\ rel.held # {}
        /\ Prev.op = "Adopt" /\ Prev.a = rel.b
        /\ Last.op = "Destroy" /\ Last.a = Prev.b /\ Last.al = rel.al
        /\ Last.held = rel.held /\ Last.n = Cardinality(rel.held)
        /\ Live(rel.a) /\ IsScoped(rel.a) /\ allocator_[rel.a] = rel.al

====
